---- MODULE Spec2Model ----
(***************************************************************************)
(* Model of Scan/MatrixARM/matrix_scan.c: the strobe/sense matrix scanner  *)
(* with its dual saturating-counter debounce, the repeat-threshold gate,   *)
(* the press/release latency histograms and the scan-rate throttle.        *)
(*                                                                         *)
(* One action is one call of an entry point of the file (Matrix_setup,     *)
(* Matrix_scan, the CLI commands).  Matrix_scan runs to completion; what   *)
(* it does in between (pin operations, calls of Macro_keyState, the error  *)
(* message) is recorded in observation variables that describe the last    *)
(* call of Matrix_scan.  Every call of Matrix_scan, and no other entry     *)
(* point, changes Matrix_divCounter.                                       *)
(***************************************************************************)
EXTENDS Integers, Sequences, FiniteSets, TLC

VARIABLES
    Matrix_divCounter,          \* uint32_t, line 45
    Matrix_scanArray,           \* KeyState[ Matrix_colsNum * Matrix_rowsNum ], line 85
    Matrix_timesRelease,        \* uint32_t[32], line 57
    Matrix_timesPress,          \* uint32_t[32], line 58
    matrixDebugMode,            \* uint8_t, line 89
    matrixDebugStateCounter,    \* uint16_t, line 92
    matrixMaxScans,             \* uint16_t, line 95
    matrixCurScans,             \* uint16_t, line 96
    matrixPrevScans,            \* uint16_t, line 97
    strobePins,                 \* level driven on each strobe line (GPIO output register)
    DebounceThrottleDiv_define, \* build-time throttle divisor, fixed at Init
    lastScan,                   \* observation: the inputs of the last Matrix_scan call
    keyStateCalls,              \* observation: Macro_keyState calls of the last Matrix_scan call, in order
    pinLog,                     \* observation: pin operations of the last Matrix_scan call, in order
    errorPrinted,               \* observation: "Matrix scan bug" messages of the last Matrix_scan call
    debugPrints,                \* observation: diagnostic output of the last Matrix_scan call, in order
    bucketLog,                  \* observation: << key, diff, bucket >> computed at lines 344-348 in the last Matrix_scan call
    intervalCalls,              \* observation: Macro_keyState calls per key in this reporting interval
    pressCalls,                 \* observation: Macro_keyState( key, Press ) calls per key so far
    releaseCalls,               \* observation: Macro_keyState( key, Release ) calls per key so far
    lastNotified                \* observation: the state of the last Macro_keyState call per key

vars == << Matrix_divCounter, Matrix_scanArray, Matrix_timesRelease, Matrix_timesPress,
           matrixDebugMode, matrixDebugStateCounter, matrixMaxScans, matrixCurScans,
           matrixPrevScans, strobePins, DebounceThrottleDiv_define, lastScan,
           keyStateCalls, pinLog, errorPrinted, debugPrints, bucketLog,
           intervalCalls, pressCalls, releaseCalls, lastNotified >>

-----------------------------------------------------------------------------
\* Configuration and bounds

\* Number of strobe lines (matrix.h configuration).
Matrix_colsNum == 2

\* Number of sense lines (matrix.h configuration).
Matrix_rowsNum == 1

\* Saturation value of activeCount / inactiveCount (0xFFFF in the firmware's
\* configuration, see the comment at lines 313-314); small here.
DebounceDivThreshold_define == 2

\* Largest throttle divisor a build of the model is configured with.
MaxThrottleDiv == 1

\* Largest scanNum argument a caller passes.
MaxScanNum == 1

\* A caller passes scanNum == 0 again after at most this many other scans.
MaxSubScans == 1

\* Largest argument given to the matrixState command.
MaxStateDumps == 1

\* Number of Matrix_scan calls explored when every key bounces freely.
MaxTicks == 18

\* Number of Matrix_scan calls explored when a single key bounces.
MaxTicksOneKey == 50

\* Number of ticks before a power of two (2^32, where the counter wraps to 0,
\* included) at which the runs over large ticks start.
WrapLead == 18

Matrix_repeatThreshold == 16

\* The threshold of the steady state the latency comment of lines 313-314
\* starts from ("a steady state 0xFFFF off scans").
SteadyOffThreshold == 65535

\* Sub-scans of a run of samples counted under SteadyOffThreshold.
MaxLatencyScans == 16

HistSize == 32

Matrix_maxKeys == Matrix_colsNum * Matrix_rowsNum

Keys == 0 .. (Matrix_maxKeys - 1)

Strobes == 0 .. (Matrix_colsNum - 1)

Senses == 0 .. (Matrix_rowsNum - 1)

Buckets == 0 .. (HistSize - 1)

UInt16 == 2 ^ 16

KeyState_Off == "Off"

KeyState_Press == "Press"

KeyState_Hold == "Hold"

KeyState_Release == "Release"

KeyState_Invalid == "Invalid"

KeyPosition == { KeyState_Off, KeyState_Press, KeyState_Hold, KeyState_Release, KeyState_Invalid }

Min(a, b) == IF a < b THEN a ELSE b

-----------------------------------------------------------------------------
\* Pure helpers

\* A uint32_t value u is held as the integer u when u < 2^31 and as u - 2^32
\* when u >= 2^31 (its 32 bits read as two's complement), so that every
\* value of the type is an integer the model checker can hold.
Int32Max == 2 * (2 ^ 30 - 1) + 1

Int32Min == (-Int32Max) - 1

\* u + 1 on uint32_t; 2^32 - 1 (held as -1) wraps to 0.
Inc32(u) == IF u = Int32Max THEN Int32Min ELSE u + 1

\* a - b on uint32_t, the difference modulo 2^32.
Sub32(a, b) ==
    CASE a >= 0 /\ b < 0 ->
            IF a > Int32Max + b
            THEN ((a - Int32Max) - 1) - ((b + Int32Max) + 1)
            ELSE a - b
      [] a < 0 /\ b >= 0 ->
            IF a < (b - Int32Max) - 1
            THEN ((a + Int32Max) + 1) + ((Int32Max - b) + 1)
            ELSE a - b
      [] OTHER -> a - b

\* a < b on uint32_t.
Less32(a, b) ==
    CASE a >= 0 /\ b < 0 -> TRUE
      [] a < 0 /\ b >= 0 -> FALSE
      [] OTHER -> a < b

\* __builtin_clzl on the 32-bit unsigned long of the ARM target: the number of
\* leading zero bits of x, for x # 0.  The result for x = 0 is undefined.
builtin_clzl(x) ==
    IF x < 0 THEN 0
    ELSE IF x >= 2 ^ 30 THEN 1
    ELSE 32 - (CHOOSE n \in 1 .. 30 : 2 ^ (n - 1) <= x /\ x < 2 ^ n)

\* Variant of HistBucket: the bit length of diff, one more than the index of
\* its highest set bit.
HistBucket_BitLength(diff) == 32 - builtin_clzl(diff)

\* uint8_t bucket = 31 - __builtin_clzl(diff);
HistBucket(diff) == 31 - builtin_clzl(diff)

\* What __builtin_clzl( 0 ) may give: the result is undefined.  The CLZ
\* instruction of the ARM target gives 32; code generated for a non-zero
\* argument gives a count in 0 .. 31, of which the two extremes are kept.
ClzOfZero == { 0, 31, 32 }

\* The value of bucket at line 348 for diff, clzZero being what
\* __builtin_clzl( 0 ) gives in this call; the difference is stored in a
\* uint8_t.
ComputedBucket(diff, clzZero) ==
    IF diff = 0 THEN (31 - clzZero) % 256 ELSE HistBucket(diff)

\* Matrix_divCounter & (1 << ( DebounceThrottleDiv_define - 1 )), as a truth value
ThrottleBit(div, throttleDiv) == ((div \div (2 ^ (throttleDiv - 1))) % 2) = 1

\* The throttle check of lines 267-274: TRUE when the call returns at once.
Throttled(div, throttleDiv) == throttleDiv > 0 /\ ~ThrottleBit(div, throttleDiv)

\* uint8_t key = Matrix_colsNum * sense + strobe;
KeyOf(strobe, sense) == Matrix_colsNum * sense + strobe

-----------------------------------------------------------------------------
\* Matrix_setup

\* One cleared entry of the debounce array (lines 214-218).
ClearedCell ==
    [ prevState         |-> KeyState_Off,
      curState          |-> KeyState_Off,
      activeCount       |-> 0,
      inactiveCount     |-> DebounceDivThreshold_define,
      lastChangeCounter |-> 0 ]

\* A cleared histogram (lines 226-229).
ClearedHist == [ i \in Buckets |-> 0 ]

-----------------------------------------------------------------------------
\* Matrix_scan, one key

\* Variant of FreezeState: the reset is done on every scan, not only on the
\* first scan of a reporting interval.
FreezeState_EveryScan(cell, scanNum) ==
    [ cell EXCEPT !.prevState = cell.curState, !.curState = KeyState_Invalid ]

\* If first scan, reset state (lines 304-309).
FreezeState(cell, scanNum) ==
    IF scanNum = 0
    THEN [ cell EXCEPT !.prevState = cell.curState, !.curState = KeyState_Invalid ]
    ELSE cell

\* Variant of CountActiveUnder: the opposing count is decremented instead
\* of shifted.
CountActiveUnder_Decrement(threshold, cell) ==
    [ cell EXCEPT
        !.activeCount   = IF cell.activeCount < threshold
                          THEN cell.activeCount + 1 ELSE cell.activeCount,
        !.inactiveCount = IF cell.inactiveCount > 0
                          THEN cell.inactiveCount - 1 ELSE 0 ]

\* Signal detected (lines 318-325) in a build whose
\* DebounceDivThreshold_define is threshold.
CountActiveUnder(threshold, cell) ==
    [ cell EXCEPT
        !.activeCount   = IF cell.activeCount < threshold
                          THEN cell.activeCount + 1 ELSE cell.activeCount,
        !.inactiveCount = cell.inactiveCount \div 2 ]

\* Signal not detected (lines 327-334) in a build whose
\* DebounceDivThreshold_define is threshold.
CountInactiveUnder(threshold, cell) ==
    [ cell EXCEPT
        !.inactiveCount = IF cell.inactiveCount < threshold
                          THEN cell.inactiveCount + 1 ELSE cell.inactiveCount,
        !.activeCount   = cell.activeCount \div 2 ]

\* Variant of CountActive: the wrap-around guard is missing.
CountActive_NoCap(cell) ==
    [ cell EXCEPT
        !.activeCount   = cell.activeCount + 1,
        !.inactiveCount = cell.inactiveCount \div 2 ]

\* Signal detected (lines 318-325).
CountActive(cell) == CountActiveUnder(DebounceDivThreshold_define, cell)

\* Variant of CountInactive: the opposing count is not shifted.
CountInactive_NoShift(cell) ==
    [ cell EXCEPT
        !.inactiveCount = IF cell.inactiveCount < DebounceDivThreshold_define
                          THEN cell.inactiveCount + 1 ELSE cell.inactiveCount ]

\* Signal not detected (lines 327-334).
CountInactive(cell) == CountInactiveUnder(DebounceDivThreshold_define, cell)

\* Increment count and right shift opposing count (lines 318-334).
DebounceCount(cell, sample) ==
    IF sample THEN CountActive(cell) ELSE CountInactive(cell)

\* uint32_t diff = Matrix_divCounter - state->lastChangeCounter; (line 344)
TimeDiff(div, cell) == Sub32(div, cell.lastChangeCounter)

\* Variant of TooFast: the window is one tick short.
TooFast_OneShort(diff) == Less32(Inc32(diff), Matrix_repeatThreshold)

\* if ( diff < Matrix_repeatThreshold ) (line 354)
TooFast(diff) == Less32(diff, Matrix_repeatThreshold)

\* Variant of SuppressKey: the current state falls back to KeyState_Off.
SuppressKey_Off(cell) == [ cell EXCEPT !.curState = KeyState_Off ]

\* Variant of SuppressKey: the current state is left as it is.
SuppressKey_Keep(cell) == cell

\* state->curState = state->prevState; (line 355)
SuppressKey(cell) == [ cell EXCEPT !.curState = cell.prevState ]

\* Variant of ActiveWins: a tie counts as active.
ActiveWins_OrEqual(cell) == cell.activeCount >= cell.inactiveCount

\* if ( state->activeCount > state->inactiveCount ) (lines 363, 377)
ActiveWins(cell) == cell.activeCount > cell.inactiveCount

\* Variant of HistIncrement: the counter is set to 1.
HistIncrement_Set(hist, bucket) == [ hist EXCEPT ![bucket] = 1 ]

\* Increment of one histogram counter (lines 370, 380); a counter holds at
\* most one event per key and tick, far below 2^32.
HistIncrement(hist, bucket) == [ hist EXCEPT ![bucket] = hist[bucket] + 1 ]

\* Variant of ResolveKey: the case label KeyState_Off is missing, so a key
\* that was Off falls to the default branch.
ResolveKey_NoOffCase(st, key, cell, div) ==
    LET bucket == HistBucket(TimeDiff(div, cell))
    IN  CASE cell.prevState \in { KeyState_Press, KeyState_Hold } ->
               IF ActiveWins(cell)
               THEN [ st EXCEPT !.arr[key] = [ cell EXCEPT !.curState = KeyState_Hold ] ]
               ELSE [ st EXCEPT
                        !.arr[key] = [ cell EXCEPT !.curState = KeyState_Release,
                                                   !.lastChangeCounter = div ],
                        !.timesRelease = HistIncrement(st.timesRelease, bucket) ]
          [] cell.prevState \in { KeyState_Release } ->
               IF ActiveWins(cell)
               THEN [ st EXCEPT
                        !.arr[key] = [ cell EXCEPT !.curState = KeyState_Press,
                                                   !.lastChangeCounter = div ],
                        !.timesPress = HistIncrement(st.timesPress, bucket) ]
               ELSE [ st EXCEPT !.arr[key] = [ cell EXCEPT !.curState = KeyState_Off ] ]
          [] OTHER ->
               [ st EXCEPT !.arr[key] = cell, !.errors = st.errors + 1 ]

\* Variant of ResolveKey: a Press does not record the tick of the change.
ResolveKey_NoPressStamp(st, key, cell, div) ==
    LET bucket == HistBucket(TimeDiff(div, cell))
    IN  CASE cell.prevState \in { KeyState_Press, KeyState_Hold } ->
               IF ActiveWins(cell)
               THEN [ st EXCEPT !.arr[key] = [ cell EXCEPT !.curState = KeyState_Hold ] ]
               ELSE [ st EXCEPT
                        !.arr[key] = [ cell EXCEPT !.curState = KeyState_Release,
                                                   !.lastChangeCounter = div ],
                        !.timesRelease = HistIncrement(st.timesRelease, bucket) ]
          [] cell.prevState \in { KeyState_Release, KeyState_Off } ->
               IF ActiveWins(cell)
               THEN [ st EXCEPT
                        !.arr[key] = [ cell EXCEPT !.curState = KeyState_Press ],
                        !.timesPress = HistIncrement(st.timesPress, bucket) ]
               ELSE [ st EXCEPT !.arr[key] = [ cell EXCEPT !.curState = KeyState_Off ] ]
          [] OTHER ->
               [ st EXCEPT !.arr[key] = cell, !.errors = st.errors + 1 ]

\* Variant of ResolveKey: a resolution to Hold stamps lastChangeCounter too.
ResolveKey_HoldStamp(st, key, cell, div) ==
    LET bucket == HistBucket(TimeDiff(div, cell))
    IN  CASE cell.prevState \in { KeyState_Press, KeyState_Hold } ->
               IF ActiveWins(cell)
               THEN [ st EXCEPT !.arr[key] = [ cell EXCEPT !.curState = KeyState_Hold,
                                                          !.lastChangeCounter = div ] ]
               ELSE [ st EXCEPT
                        !.arr[key] = [ cell EXCEPT !.curState = KeyState_Release,
                                                   !.lastChangeCounter = div ],
                        !.timesRelease = HistIncrement(st.timesRelease, bucket) ]
          [] cell.prevState \in { KeyState_Release, KeyState_Off } ->
               IF ActiveWins(cell)
               THEN [ st EXCEPT
                        !.arr[key] = [ cell EXCEPT !.curState = KeyState_Press,
                                                   !.lastChangeCounter = div ],
                        !.timesPress = HistIncrement(st.timesPress, bucket) ]
               ELSE [ st EXCEPT !.arr[key] = [ cell EXCEPT !.curState = KeyState_Off ] ]
          [] OTHER ->
               [ st EXCEPT !.arr[key] = cell, !.errors = st.errors + 1 ]

\* Variant of ResolveKey: the default branch falls back to KeyState_Off.
ResolveKey_FallbackOff(st, key, cell, div) ==
    LET bucket == HistBucket(TimeDiff(div, cell))
    IN  CASE cell.prevState \in { KeyState_Press, KeyState_Hold } ->
               IF ActiveWins(cell)
               THEN [ st EXCEPT !.arr[key] = [ cell EXCEPT !.curState = KeyState_Hold ] ]
               ELSE [ st EXCEPT
                        !.arr[key] = [ cell EXCEPT !.curState = KeyState_Release,
                                                   !.lastChangeCounter = div ],
                        !.timesRelease = HistIncrement(st.timesRelease, bucket) ]
          [] cell.prevState \in { KeyState_Release, KeyState_Off } ->
               IF ActiveWins(cell)
               THEN [ st EXCEPT
                        !.arr[key] = [ cell EXCEPT !.curState = KeyState_Press,
                                                   !.lastChangeCounter = div ],
                        !.timesPress = HistIncrement(st.timesPress, bucket) ]
               ELSE [ st EXCEPT !.arr[key] = [ cell EXCEPT !.curState = KeyState_Off ] ]
          [] OTHER ->
               [ st EXCEPT !.arr[key] = [ cell EXCEPT !.curState = KeyState_Off ],
                           !.errors = st.errors + 1 ]

\* The switch on prevState (lines 359-393) applied to the scan state st for
\* the key whose cell (frozen and counted) is cell.  The default branch
\* prints the error and leaves curState as it is.
ResolveKey(st, key, cell, div) ==
    LET bucket == HistBucket(TimeDiff(div, cell))
    IN  CASE cell.prevState \in { KeyState_Press, KeyState_Hold } ->
               IF ActiveWins(cell)
               THEN [ st EXCEPT !.arr[key] = [ cell EXCEPT !.curState = KeyState_Hold ] ]
               ELSE [ st EXCEPT
                        !.arr[key] = [ cell EXCEPT !.curState = KeyState_Release,
                                                   !.lastChangeCounter = div ],
                        !.timesRelease = HistIncrement(st.timesRelease, bucket) ]
          [] cell.prevState \in { KeyState_Release, KeyState_Off } ->
               IF ActiveWins(cell)
               THEN [ st EXCEPT
                        !.arr[key] = [ cell EXCEPT !.curState = KeyState_Press,
                                                   !.lastChangeCounter = div ],
                        !.timesPress = HistIncrement(st.timesPress, bucket) ]
               ELSE [ st EXCEPT !.arr[key] = [ cell EXCEPT !.curState = KeyState_Off ] ]
          [] OTHER ->
               [ st EXCEPT !.arr[key] = cell, !.errors = st.errors + 1 ]

\* Macro_keyState( key, state->curState ); (line 396)
SendKeyState(st, key) ==
    [ st EXCEPT !.calls = Append(st.calls, << key, st.arr[key].curState >>) ]

\* Variant of DebugPrint: a printed change is marked as reported by
\* copying curState to prevState.
DebugPrint_MarksReported(st, key) ==
    LET cell == st.arr[key]
    IN  IF st.mode # 0 /\ cell.curState # cell.prevState
        THEN IF st.mode = 1 /\ cell.curState = KeyState_Press
             THEN [ st EXCEPT !.prints = Append(st.prints, << "Key", key >>),
                              !.arr[key].prevState = cell.curState ]
             ELSE IF st.mode = 2
                  THEN [ st EXCEPT
                           !.prints = Append(st.prints,
                                             << "Transition", key, cell.curState >>),
                           !.arr[key].prevState = cell.curState ]
                  ELSE st
        ELSE st

\* Matrix Debug, only if there is a state change (lines 398-414): mode 1
\* prints the key of a Press, mode 2 prints the key and its new state.
DebugPrint(st, key) ==
    LET cell == st.arr[key]
    IN  IF st.mode # 0 /\ cell.curState # cell.prevState
        THEN IF st.mode = 1 /\ cell.curState = KeyState_Press
             THEN [ st EXCEPT !.prints = Append(st.prints, << "Key", key >>) ]
             ELSE IF st.mode = 2
                  THEN [ st EXCEPT
                           !.prints = Append(st.prints,
                                             << "Transition", key, cell.curState >>) ]
                  ELSE st
        ELSE st

\* diff and bucket are computed (lines 344-348).
ComputeBucket(st, key, cell, div) ==
    LET diff == TimeDiff(div, cell)
    IN  [ st EXCEPT !.buckets =
            Append(st.buckets, << key, diff, ComputedBucket(diff, st.clzZero) >>) ]

\* The body of the sense loop for one key (lines 299-415).
ScanKey(st, key, scanNum, sample, div) ==
    LET cell == DebounceCount(FreezeState(st.arr[key], scanNum), sample)
    IN  IF cell.curState # KeyState_Invalid
        THEN [ st EXCEPT !.arr[key] = cell ]
        ELSE IF TooFast(TimeDiff(div, cell))
             THEN [ ComputeBucket(st, key, cell, div) EXCEPT
                      !.arr[key] = SuppressKey(cell) ]
             ELSE DebugPrint(
                    SendKeyState(
                      ResolveKey(ComputeBucket(st, key, cell, div), key, cell, div),
                      key),
                    key)

-----------------------------------------------------------------------------
\* Matrix_scan, the strobe and sense loops

\* Matrix_pin( Matrix_cols[ strobe ], Type_StrobeOn ); (lines 123-125, 294)
StrobeOn(st, strobe) ==
    [ st EXCEPT !.strobes[strobe] = TRUE,
                !.pins = Append(st.pins, << "StrobeOn", strobe >>) ]

\* Variant of StrobeOff: the pin is left driven.
StrobeOff_LeftOn(st, strobe) ==
    [ st EXCEPT !.pins = Append(st.pins, << "StrobeOff", strobe >>) ]

\* Matrix_pin( Matrix_cols[ strobe ], Type_StrobeOff ); (lines 127-129, 419)
StrobeOff(st, strobe) ==
    [ st EXCEPT !.strobes[strobe] = FALSE,
                !.pins = Append(st.pins, << "StrobeOff", strobe >>) ]

\* Matrix_pin( Matrix_rows[ sense ], Type_Sense ) (lines 151-152, 318): the
\* level read is that of the key at the crossing of the active strobes and
\* the sense line; the read is logged with the strobes active at that time.
SenseRead(st, sense) ==
    [ st EXCEPT !.pins = Append(st.pins,
                    << "Sense", sense, { s \in Strobes : st.strobes[s] } >>) ]

\* The level Matrix_pin returns for the sense line (line 152): the line is
\* active when the switch at its crossing with a driven strobe is closed.
SenseLevel(st, sense, samples) ==
    \E s \in Strobes : st.strobes[s] /\ samples[KeyOf(s, sense)]

\* The statements of a loop body run in sequence: each intermediate scan
\* state (s1, s2, s3 below) is bound as the element of a singleton set, so it
\* is computed once, and the result of the body is the one element of the set
\* built from it.

\* for ( uint8_t sense = 0; sense < Matrix_rowsNum; sense++ ) (lines 297-416):
\* read the sense pin of the key, then process the key, then go on.
RECURSIVE SenseLoop(_, _, _, _, _, _)
SenseLoop(st, strobe, sense, scanNum, samples, div) ==
    IF sense >= Matrix_rowsNum
    THEN st
    ELSE CHOOSE result \in
            { SenseLoop(s2, strobe, sense + 1, scanNum, samples, div) :
                s2 \in { ScanKey(s1, KeyOf(strobe, sense), scanNum,
                                 SenseLevel(s1, sense, samples), div) :
                    s1 \in { SenseRead(st, sense) } } } : TRUE

\* for ( uint8_t strobe = 0; strobe < Matrix_colsNum; strobe++ ) (lines 291-420):
\* strobe the pin, scan each of the sense pins, unstrobe the pin, then go on.
RECURSIVE StrobeLoop(_, _, _, _, _)
StrobeLoop(st, strobe, scanNum, samples, div) ==
    IF strobe >= Matrix_colsNum
    THEN st
    ELSE CHOOSE result \in
            { StrobeLoop(s3, strobe + 1, scanNum, samples, div) :
                s3 \in { StrobeOff(s2, strobe) :
                    s2 \in { SenseLoop(s1, strobe, 0, scanNum, samples, div) :
                        s1 \in { StrobeOn(st, strobe) } } } } : TRUE

-----------------------------------------------------------------------------
\* Entry points

NoSamples == [ k \in Keys |-> FALSE ]

NoCalls == [ k \in Keys |-> 0 ]

\* Macro_keyState has not been called for a key.
NotNotified == "None"

NoneNotified == [ k \in Keys |-> NotNotified ]

\* The inputs of a Matrix_scan call, for the observation variable lastScan.
ScanCall(scanNum, samples) == [ scanNum |-> scanNum, samples |-> samples ]

\* Number of Macro_keyState calls for key in a sequence of calls.
CallsFor(calls, key) == Cardinality({ i \in 1 .. Len(calls) : calls[i][1] = key })

\* Number of Macro_keyState( key, state ) calls in a sequence of calls.
CallsWith(calls, key, state) ==
    Cardinality({ i \in 1 .. Len(calls) : calls[i] = << key, state >> })

\* Increment stats counters (lines 277-288).
StatsMax(scanNum) == IF scanNum > matrixMaxScans THEN scanNum ELSE matrixMaxScans

StatsPrev(scanNum) == IF scanNum = 0 THEN matrixCurScans ELSE matrixPrevScans

StatsCur(scanNum) == IF scanNum = 0 THEN 0 ELSE (matrixCurScans + 1) % UInt16

\* State Table Output Debug (lines 423-427).
DumpCounter(counter) == IF counter > 0 THEN counter - 1 ELSE counter

\* The state table printed while the counter is non-zero (lines 428-463): the
\* statistics, the scan number and the cells as they are after the loops.
DumpPrint(st, counter, scanNum) ==
    IF counter > 0
    THEN Append(st.prints, << "StateTable", StatsMax(scanNum), StatsPrev(scanNum),
                              scanNum, st.arr >>)
    ELSE st.prints

\* void Matrix_setup() (lines 183-230).  The strobe pins are configured as
\* outputs, their level is not written; Matrix_divCounter and matrixCurScans
\* are not touched.
Matrix_setup ==
    /\ Matrix_scanArray' = [ item \in Keys |-> ClearedCell ]
    /\ matrixMaxScans' = 0
    /\ matrixPrevScans' = 0
    /\ Matrix_timesRelease' = ClearedHist
    /\ Matrix_timesPress' = ClearedHist
    /\ UNCHANGED << Matrix_divCounter, matrixDebugMode, matrixDebugStateCounter,
                    matrixCurScans, strobePins, DebounceThrottleDiv_define,
                    lastScan, keyStateCalls, pinLog, errorPrinted, debugPrints,
                    bucketLog, intervalCalls, pressCalls, releaseCalls,
                    lastNotified >>

\* The scan state the loops of Matrix_scan start from.
ScanStart ==
    [ arr          |-> Matrix_scanArray,
      timesRelease |-> Matrix_timesRelease,
      timesPress   |-> Matrix_timesPress,
      strobes      |-> strobePins,
      mode         |-> matrixDebugMode,
      clzZero      |-> 32,
      buckets      |-> << >>,
      prints       |-> << >>,
      calls        |-> << >>,
      pins         |-> << >>,
      errors       |-> 0 ]

\* The reporting interval's count of Macro_keyState calls per key: a call
\* with scanNum == 0 opens a new interval.
IntervalCount(scanNum, calls) ==
    [ k \in Keys |-> (IF scanNum = 0 THEN 0 ELSE intervalCalls[k]) + CallsFor(calls, k) ]

\* ScanSkipped with the statistics of lines 277-288 updated ahead of the
\* throttle check.
ScanSkipped_StatsFirst(scanNum, samples) ==
    /\ lastScan' = ScanCall(scanNum, samples)
    /\ keyStateCalls' = << >>
    /\ pinLog' = << >>
    /\ errorPrinted' = 0
    /\ debugPrints' = << >>
    /\ bucketLog' = << >>
    /\ intervalCalls' = IntervalCount(scanNum, << >>)
    /\ matrixMaxScans' = StatsMax(scanNum)
    /\ matrixPrevScans' = StatsPrev(scanNum)
    /\ matrixCurScans' = StatsCur(scanNum)
    /\ UNCHANGED << Matrix_scanArray, Matrix_timesRelease, Matrix_timesPress,
                    matrixDebugMode, matrixDebugStateCounter, strobePins,
                    pressCalls, releaseCalls, lastNotified >>

\* The early return of the throttle check (lines 265-273).
ScanSkipped(scanNum, samples) ==
    /\ lastScan' = ScanCall(scanNum, samples)
    /\ keyStateCalls' = << >>
    /\ pinLog' = << >>
    /\ errorPrinted' = 0
    /\ debugPrints' = << >>
    /\ bucketLog' = << >>
    /\ intervalCalls' = IntervalCount(scanNum, << >>)
    /\ UNCHANGED << Matrix_scanArray, Matrix_timesRelease, Matrix_timesPress,
                    matrixDebugMode, matrixDebugStateCounter, matrixMaxScans,
                    matrixCurScans, matrixPrevScans, strobePins, pressCalls,
                    releaseCalls, lastNotified >>

\* The state of the last Macro_keyState call per key once the calls of a
\* scan, from the n-th on, are made in order.
RECURSIVE NotifiedAfter(_, _, _)
NotifiedAfter(last, calls, n) ==
    IF n > Len(calls)
    THEN last
    ELSE NotifiedAfter([ last EXCEPT ![calls[n][1]] = calls[n][2] ], calls, n + 1)

LastNotified(calls) == NotifiedAfter(lastNotified, calls, 1)

\* What __builtin_clzl( 0 ) may give in the call at tick div: a result is
\* drawn only when some cell makes diff 0.
UndefinedClz(div) ==
    IF \E k \in Keys : Matrix_scanArray[k].lastChangeCounter = div
    THEN ClzOfZero
    ELSE { 32 }

\* The full scan (lines 276-464) at tick div.
ScanFull(scanNum, samples, div) ==
    \E clzZero \in UndefinedClz(div) :
    \E st \in { StrobeLoop([ ScanStart EXCEPT !.clzZero = clzZero ], 0, scanNum,
                            samples, div) } :
        /\ matrixMaxScans' = StatsMax(scanNum)
        /\ matrixPrevScans' = StatsPrev(scanNum)
        /\ matrixCurScans' = StatsCur(scanNum)
        /\ Matrix_scanArray' = st.arr
        /\ Matrix_timesRelease' = st.timesRelease
        /\ Matrix_timesPress' = st.timesPress
        /\ strobePins' = st.strobes
        /\ matrixDebugStateCounter' = DumpCounter(matrixDebugStateCounter)
        /\ lastScan' = ScanCall(scanNum, samples)
        /\ keyStateCalls' = st.calls
        /\ pinLog' = st.pins
        /\ errorPrinted' = st.errors
        /\ debugPrints' = DumpPrint(st, matrixDebugStateCounter, scanNum)
        /\ bucketLog' = st.buckets
        /\ intervalCalls' = IntervalCount(scanNum, st.calls)
        /\ pressCalls' = [ k \in Keys |->
                             pressCalls[k] + CallsWith(st.calls, k, KeyState_Press) ]
        /\ releaseCalls' = [ k \in Keys |->
                             releaseCalls[k] + CallsWith(st.calls, k, KeyState_Release) ]
        /\ lastNotified' = LastNotified(st.calls)
        /\ UNCHANGED matrixDebugMode

\* void Matrix_scan( uint16_t scanNum ) (lines 263-465); samples[key] is the
\* level the sense line of key reads while its strobe is driven.
Matrix_scan(scanNum, samples) ==
    LET div == Inc32(Matrix_divCounter)
    IN  /\ Matrix_divCounter' = div
        /\ UNCHANGED DebounceThrottleDiv_define
        /\ IF Throttled(div, DebounceThrottleDiv_define)
           THEN ScanSkipped(scanNum, samples)
           ELSE ScanFull(scanNum, samples, div)

\* What a CLI command leaves alone.
CliUnchanged ==
    UNCHANGED << Matrix_divCounter, Matrix_scanArray, Matrix_timesRelease,
                 Matrix_timesPress, matrixMaxScans, matrixCurScans, matrixPrevScans,
                 strobePins, DebounceThrottleDiv_define, lastScan, keyStateCalls,
                 pinLog, errorPrinted, debugPrints, bucketLog, intervalCalls,
                 pressCalls, releaseCalls, lastNotified >>

\* matrixDebugMode after the command with first argument character arg
\* (lines 481-497): "T" toggles mode 2, "" toggles mode 1, else no change.
DebugModeAfter(arg) ==
    CASE arg = "T" -> IF matrixDebugMode # 2 THEN 2 ELSE 0
      [] arg = ""  -> IF matrixDebugMode # 1 THEN 1 ELSE 0
      [] OTHER     -> matrixDebugMode

\* void cliFunc_matrixDebug( char* args ) (lines 470-502)
cliFunc_matrixDebug(arg) ==
    /\ matrixDebugMode' = DebugModeAfter(arg)
    /\ UNCHANGED matrixDebugStateCounter
    /\ CliUnchanged

\* void cliFunc_matrixState( char* args ) (lines 504-519); n = -1 stands for
\* no argument.
cliFunc_matrixState(n) ==
    /\ matrixDebugStateCounter' = IF n = -1 THEN 1 ELSE n % UInt16
    /\ UNCHANGED matrixDebugMode
    /\ CliUnchanged

-----------------------------------------------------------------------------
\* Specifications

ScanNums == 0 .. MaxScanNum

\* The caller's reporting interval is bounded.
CallerAllows(scanNum) == scanNum = 0 \/ matrixCurScans < MaxSubScans

\* State after boot and Matrix_setup (static initializers of lines 45-97).
Init ==
    /\ Matrix_divCounter = 0
    /\ Matrix_scanArray = [ item \in Keys |-> ClearedCell ]
    /\ Matrix_timesRelease = ClearedHist
    /\ Matrix_timesPress = ClearedHist
    /\ matrixDebugMode = 0
    /\ matrixDebugStateCounter = 0
    /\ matrixMaxScans = 0
    /\ matrixCurScans = 0
    /\ matrixPrevScans = 0
    /\ strobePins = [ s \in Strobes |-> FALSE ]
    /\ DebounceThrottleDiv_define \in 0 .. MaxThrottleDiv
    /\ lastScan = ScanCall(0, NoSamples)
    /\ keyStateCalls = << >>
    /\ pinLog = << >>
    /\ errorPrinted = 0
    /\ debugPrints = << >>
    /\ bucketLog = << >>
    /\ intervalCalls = NoCalls
    /\ pressCalls = NoCalls
    /\ releaseCalls = NoCalls
    /\ lastNotified = NoneNotified

\* The keys whose switches are operated: the first and the last key of the
\* matrix (every key of a matrix of two).  The other keys read open.
OperatedKeys == { 0, Matrix_maxKeys - 1 }

\* The sense samples of one scan when the keys of the set operated may read
\* closed or open and every other key reads open.
SamplesOf(operated) ==
    { [ k \in Keys |-> k \in closed ] : closed \in SUBSET (operated \cap Keys) }

\* Matrix_scan with any argument and any sense samples of the operated keys.
Scan ==
    /\ Matrix_divCounter < MaxTicks
    /\ \E scanNum \in ScanNums, samples \in SamplesOf(OperatedKeys) :
          /\ CallerAllows(scanNum)
          /\ Matrix_scan(scanNum, samples)

\* Matrix_setup called again.
Setup == Matrix_setup

\* The matrixDebug command.
DebugCommand == \E arg \in { "T", "", "x" } : cliFunc_matrixDebug(arg)

\* The matrixState command.
StateCommand == \E n \in -1 .. MaxStateDumps : cliFunc_matrixState(n)

Next == Scan \/ Setup

Spec == Init /\ [][Next]_vars

\* A single key is operated, over more ticks: the last key of the matrix.
BouncingKey == Matrix_maxKeys - 1

\* Matrix_scan with any argument while only BouncingKey is operated.
ScanOneKey ==
    /\ Matrix_divCounter < MaxTicksOneKey
    /\ \E scanNum \in ScanNums, samples \in SamplesOf({ BouncingKey }) :
          /\ CallerAllows(scanNum)
          /\ Matrix_scan(scanNum, samples)

NextOneKey == ScanOneKey

SpecOneKey == Init /\ [][NextOneKey]_vars

\* Scenario A: no throttling, BouncingKey reads closed on every scan, the
\* other keys read open, and the caller passes scanNum == 0 again and again
\* (CallerAllows) for as long as it calls Matrix_scan (weak fairness).
InitScenarioA == Init /\ DebounceThrottleDiv_define = 0

ScanClosed ==
    /\ Matrix_divCounter < MaxTicksOneKey
    /\ \E scanNum \in ScanNums :
          /\ CallerAllows(scanNum)
          /\ Matrix_scan(scanNum, [ k \in Keys |-> k = BouncingKey ])

NextScenarioA == ScanClosed

SpecScenarioA ==
    InitScenarioA /\ [][NextScenarioA]_vars /\ WF_vars(NextScenarioA)

\* Scenario C: BouncingKey reads closed only in isolated scans, each taken
\* from the steady Off counters (activeCount 0, inactiveCount T) and followed
\* by open samples until the counters are steady again; the other keys read
\* open.  A single closed sample followed only by open samples is the run
\* with one such scan.
SteadyOff(cell) ==
    cell.activeCount = 0 /\ cell.inactiveCount = DebounceDivThreshold_define

ScanGlitch ==
    /\ Matrix_divCounter < MaxTicksOneKey
    /\ \E scanNum \in ScanNums, samples \in SamplesOf({ BouncingKey }) :
          /\ CallerAllows(scanNum)
          /\ samples[BouncingKey] => SteadyOff(Matrix_scanArray[BouncingKey])
          /\ Matrix_scan(scanNum, samples)

NextScenarioC == ScanGlitch

SpecScenarioC == Init /\ [][NextScenarioC]_vars

\* The uint32_t value 2^k for k in 0 .. 31, and 0 for k = 32 (2^32 wraps).
PowerTick(k) ==
    CASE k = 32 -> 0
      [] k = 31 -> Int32Min
      [] OTHER  -> 2 ^ k

\* The powers of two the runs over large ticks cross: 2^5, the first past
\* WrapLead; 2^31, the top bit of the counter; 2^32, where it wraps.
LateExponents == { 5, 31, 32 }

\* Runs over large ticks: Matrix_setup is called when the free-running
\* counter, which it does not reset, is WrapLead ticks short of a power of
\* two, and the observation starts there.  The build does not throttle.
StartTicks == { Sub32(PowerTick(k), WrapLead) : k \in LateExponents }

InitLate ==
    /\ Matrix_divCounter \in StartTicks
    /\ Matrix_scanArray = [ item \in Keys |-> ClearedCell ]
    /\ Matrix_timesRelease = ClearedHist
    /\ Matrix_timesPress = ClearedHist
    /\ matrixDebugMode = 0
    /\ matrixDebugStateCounter = 0
    /\ matrixMaxScans = 0
    /\ matrixCurScans = 0
    /\ matrixPrevScans = 0
    /\ strobePins = [ s \in Strobes |-> FALSE ]
    /\ DebounceThrottleDiv_define = 0
    /\ lastScan = ScanCall(0, NoSamples)
    /\ keyStateCalls = << >>
    /\ pinLog = << >>
    /\ errorPrinted = 0
    /\ debugPrints = << >>
    /\ bucketLog = << >>
    /\ intervalCalls = NoCalls
    /\ pressCalls = NoCalls
    /\ releaseCalls = NoCalls
    /\ lastNotified = NoneNotified

\* Matrix_scan with any argument while only BouncingKey is operated, up to
\* two ticks past the power of two the run started short of.
ScanLate ==
    /\ \E start \in StartTicks :
          Less32(Sub32(Matrix_divCounter, start), WrapLead + 2)
    /\ \E scanNum \in ScanNums, samples \in SamplesOf({ BouncingKey }) :
          /\ CallerAllows(scanNum)
          /\ Matrix_scan(scanNum, samples)

NextLate == ScanLate

SpecLate == InitLate /\ [][NextLate]_vars

\* Runs from an inconsistent array: Matrix_scanArray is a global (line 85),
\* and the default branch of the switch (lines 388-392) is what the scanner
\* does with a cell that a writer other than Matrix_setup and Matrix_scan
\* has left KeyState_Invalid.  Here that cell is the one of the first key,
\* overwritten after Matrix_setup; the key reads open and BouncingKey is
\* operated.
FaultyKey == 0

InitFault ==
    /\ Matrix_divCounter = 0
    /\ Matrix_scanArray =
          [ item \in Keys |->
              IF item = FaultyKey
              THEN [ ClearedCell EXCEPT !.curState = KeyState_Invalid ]
              ELSE ClearedCell ]
    /\ Matrix_timesRelease = ClearedHist
    /\ Matrix_timesPress = ClearedHist
    /\ matrixDebugMode = 0
    /\ matrixDebugStateCounter = 0
    /\ matrixMaxScans = 0
    /\ matrixCurScans = 0
    /\ matrixPrevScans = 0
    /\ strobePins = [ s \in Strobes |-> FALSE ]
    /\ DebounceThrottleDiv_define \in 0 .. MaxThrottleDiv
    /\ lastScan = ScanCall(0, NoSamples)
    /\ keyStateCalls = << >>
    /\ pinLog = << >>
    /\ errorPrinted = 0
    /\ debugPrints = << >>
    /\ bucketLog = << >>
    /\ intervalCalls = NoCalls
    /\ pressCalls = NoCalls
    /\ releaseCalls = NoCalls
    /\ lastNotified = NoneNotified

ScanFault ==
    /\ Matrix_divCounter < MaxTicks
    /\ \E scanNum \in ScanNums, samples \in SamplesOf({ BouncingKey }) :
          /\ CallerAllows(scanNum)
          /\ Matrix_scan(scanNum, samples)

NextFault == ScanFault

SpecFault == InitFault /\ [][NextFault]_vars

\* Throttled runs: the throttle divisor is not 0, BouncingKey reads closed
\* on every scan, and the caller passes the index of the sub-scan within the
\* reporting interval: 0 on the first call and whenever a new interval
\* starts, otherwise one more than on the call before.  An interval has at
\* most MaxScanNum + 1 calls, so scanNum == 0 recurs for as long as the caller
\* calls Matrix_scan (weak fairness).
InitThrottled == Init /\ DebounceThrottleDiv_define > 0

SubScanIndex(scanNum) ==
    \/ scanNum = 0
    \/ Matrix_divCounter # 0 /\ scanNum = lastScan.scanNum + 1

ScanThrottled ==
    /\ Matrix_divCounter < MaxTicksOneKey
    /\ \E scanNum \in ScanNums :
          /\ SubScanIndex(scanNum)
          /\ Matrix_scan(scanNum, [ k \in Keys |-> k = BouncingKey ])

NextThrottled == ScanThrottled

SpecThrottled ==
    InitThrottled /\ [][NextThrottled]_vars /\ WF_vars(NextThrottled)

\* The debounce counters alone (lines 318-334) in a build whose threshold is
\* SteadyOffThreshold: every cell starts at the steady off counters, each
\* step is one sub-scan in which BouncingKey reads closed, the other operated
\* key reads either level and the remaining keys read open, and
\* Matrix_divCounter counts the sub-scans.
InitLatency ==
    /\ Matrix_divCounter = 0
    /\ Matrix_scanArray =
          [ item \in Keys |-> [ ClearedCell EXCEPT !.inactiveCount = SteadyOffThreshold ] ]
    /\ Matrix_timesRelease = ClearedHist
    /\ Matrix_timesPress = ClearedHist
    /\ matrixDebugMode = 0
    /\ matrixDebugStateCounter = 0
    /\ matrixMaxScans = 0
    /\ matrixCurScans = 0
    /\ matrixPrevScans = 0
    /\ strobePins = [ s \in Strobes |-> FALSE ]
    /\ DebounceThrottleDiv_define = 0
    /\ lastScan = ScanCall(0, NoSamples)
    /\ keyStateCalls = << >>
    /\ pinLog = << >>
    /\ errorPrinted = 0
    /\ debugPrints = << >>
    /\ bucketLog = << >>
    /\ intervalCalls = NoCalls
    /\ pressCalls = NoCalls
    /\ releaseCalls = NoCalls
    /\ lastNotified = NoneNotified

SampleLatency ==
    /\ Matrix_divCounter < MaxLatencyScans
    /\ \E samples \in { [ k \in Keys |-> k = BouncingKey \/ k \in closed ] :
                             closed \in SUBSET (OperatedKeys \ { BouncingKey }) } :
          /\ Matrix_scanArray' =
                [ k \in Keys |->
                    IF samples[k]
                    THEN CountActiveUnder(SteadyOffThreshold, Matrix_scanArray[k])
                    ELSE CountInactiveUnder(SteadyOffThreshold, Matrix_scanArray[k]) ]
          /\ lastScan' = ScanCall(lastScan.scanNum, samples)
    /\ Matrix_divCounter' = Matrix_divCounter + 1
    /\ UNCHANGED << Matrix_timesRelease, Matrix_timesPress, matrixDebugMode,
                    matrixDebugStateCounter, matrixMaxScans, matrixCurScans,
                    matrixPrevScans, strobePins, DebounceThrottleDiv_define,
                    keyStateCalls, pinLog, errorPrinted, debugPrints, bucketLog,
                    intervalCalls, pressCalls, releaseCalls, lastNotified >>

NextLatency == SampleLatency

SpecLatency == InitLatency /\ [][NextLatency]_vars

\* Matrix_scan with any argument while only BouncingKey is operated, for the
\* runs in which the CLI commands are given.
ScanCli ==
    /\ Matrix_divCounter < MaxTicks
    /\ \E scanNum \in ScanNums, samples \in SamplesOf({ BouncingKey }) :
          /\ CallerAllows(scanNum)
          /\ Matrix_scan(scanNum, samples)

\* The scanner with the diagnostic commands of the CLI given between scans.
NextCli == ScanCli \/ DebugCommand \/ StateCommand

SpecCli == Init /\ [][NextCli]_vars

-----------------------------------------------------------------------------
\* Vocabulary of the properties

\* A step that is a call of Matrix_scan.
ScanStep == Matrix_divCounter' # Matrix_divCounter

\* A step that is a call of Matrix_scan that passes the throttle check.
FullScanStep ==
    ScanStep /\ ~Throttled(Matrix_divCounter', DebounceThrottleDiv_define)

\* A step that is a call of Matrix_scan that the throttle check ends.
SkippedScanStep ==
    ScanStep /\ Throttled(Matrix_divCounter', DebounceThrottleDiv_define)

\* The last call of Matrix_scan passed the throttle check.
LastScanFull ==
    Matrix_divCounter > 0 /\ ~Throttled(Matrix_divCounter, DebounceThrottleDiv_define)

\* The last call of Matrix_scan was ended by the throttle check.
LastScanSkipped ==
    Matrix_divCounter > 0 /\ Throttled(Matrix_divCounter, DebounceThrottleDiv_define)

ConcreteStates == { KeyState_Off, KeyState_Press, KeyState_Hold, KeyState_Release }

\* The sum of the counters hist[0 .. n - 1] of a histogram.
RECURSIVE HistSum(_, _)
HistSum(hist, n) == IF n = 0 THEN 0 ELSE hist[n - 1] + HistSum(hist, n - 1)

\* The sum of all counters of a histogram.
HistTotal(hist) == HistSum(hist, HistSize)

\* The histogram after holds n counts more than the histogram before (an
\* unchanged histogram holds 0 more).
HistGrowsBy(before, after, n) ==
    \/ n = 0 /\ after = before
    \/ HistTotal(after) = HistTotal(before) + n

\* Number of Macro_keyState calls with the given state in a sequence of calls.
CallsOfState(calls, state) ==
    Cardinality({ i \in 1 .. Len(calls) : calls[i][2] = state })

\* In the step, the cell of key k is processed with curState == Invalid: the
\* call has scanNum == 0 (the cell is frozen first) or curState was Invalid.
ProcessedInvalid(k) ==
    lastScan'.scanNum = 0 \/ Matrix_scanArray[k].curState = KeyState_Invalid

\* The prevState the cell of key k is processed with in the step.
ProcessedPrev(k) ==
    IF lastScan'.scanNum = 0
    THEN Matrix_scanArray[k].curState
    ELSE Matrix_scanArray[k].prevState

\* The scan state the loops of the step's call of Matrix_scan end in when
\* the call is made with matrixDebugMode == 0 from the same cells,
\* histograms, strobe levels and tick, with the same scanNum and samples.
QuietScan ==
    StrobeLoop([ ScanStart EXCEPT !.mode = 0 ], 0, lastScan'.scanNum,
               lastScan'.samples, Matrix_divCounter')

\* The strobes driven after the first n pin operations of a log, none being
\* driven before the first.
ActiveAfter(log, n) ==
    { s \in Strobes :
        \E i \in 1 .. n :
            /\ log[i] = << "StrobeOn", s >>
            /\ \A j \in (i + 1) .. n : log[j] # << "StrobeOff", s >> }

\* The strobes in the order in which a log drives them.
StrobeOrder(log) ==
    SelectSeq(log, LAMBDA op : op[1] = "StrobeOn")

\* diff as computed for key k in the step.
StepDiff(k) == Sub32(Matrix_divCounter', Matrix_scanArray[k].lastChangeCounter)

\* In the step, the cell of key k reaches the switch with prevState ==
\* KeyState_Invalid: it is processed with curState == Invalid, diff has
\* reached the repeat threshold and its prevState is Invalid.
ReachesDefault(k) ==
    /\ ProcessedInvalid(k)
    /\ ~Less32(StepDiff(k), Matrix_repeatThreshold)
    /\ ProcessedPrev(k) = KeyState_Invalid

-----------------------------------------------------------------------------
\* C1: after Matrix_setup and any sequence of Matrix_scan calls, every cell
\* has 0 <= activeCount <= T and 0 <= inactiveCount <= T, T being
\* DebounceDivThreshold_define.
C1_CountersSaturate ==
    \A k \in Keys :
        /\ Matrix_scanArray[k].activeCount \in 0 .. DebounceDivThreshold_define
        /\ Matrix_scanArray[k].inactiveCount \in 0 .. DebounceDivThreshold_define

\* A key read closed by a full scan with scanNum # 0 while its activeCount is
\* at T and more ticks than T have passed, and another key read open with its
\* inactiveCount at T.
C1_Witness ==
    /\ LastScanFull
    /\ lastScan.scanNum # 0
    /\ Matrix_divCounter > DebounceDivThreshold_define + 1
    /\ \E k \in Keys :
          /\ lastScan.samples[k]
          /\ Matrix_scanArray[k].activeCount = DebounceDivThreshold_define
    /\ \E k \in Keys :
          /\ ~lastScan.samples[k]
          /\ Matrix_scanArray[k].inactiveCount = DebounceDivThreshold_define

\* C2: on every scan that is not throttled, for every key: a closed sample
\* gives activeCount' = min(activeCount + 1, T) and inactiveCount' =
\* inactiveCount div 2, an open sample gives inactiveCount' =
\* min(inactiveCount + 1, T) and activeCount' = activeCount div 2; the two
\* counters never both increase.
C2_MutualDecay ==
    [][ FullScanStep =>
          \A k \in Keys :
              LET old == Matrix_scanArray[k]
                  new == Matrix_scanArray'[k]
              IN  /\ IF lastScan'.samples[k]
                     THEN /\ new.activeCount =
                                Min(old.activeCount + 1, DebounceDivThreshold_define)
                          /\ new.inactiveCount = old.inactiveCount \div 2
                     ELSE /\ new.inactiveCount =
                                Min(old.inactiveCount + 1, DebounceDivThreshold_define)
                          /\ new.activeCount = old.activeCount \div 2
                  /\ ~( new.activeCount > old.activeCount
                        /\ new.inactiveCount > old.inactiveCount ) ]_vars

\* A full scan has read one key closed, leaving it with activeCount below T
\* and a non-zero inactiveCount (both counters moved), and another key open
\* with a non-zero activeCount left after the halving.
C2_Witness ==
    /\ LastScanFull
    /\ \E k \in Keys :
          /\ lastScan.samples[k]
          /\ Matrix_scanArray[k].activeCount \in 1 .. (DebounceDivThreshold_define - 1)
          /\ Matrix_scanArray[k].inactiveCount > 0
    /\ \E k \in Keys :
          /\ ~lastScan.samples[k]
          /\ Matrix_scanArray[k].activeCount > 0

\* C3: in every reporting interval (from one Matrix_scan call with
\* scanNum == 0 up to the next such call) Macro_keyState is called at most
\* once for each key.
C3_OncePerInterval == \A k \in Keys : intervalCalls[k] <= 1

\* A full scan with scanNum # 0 has run in an interval in which one key was
\* reported as Press and another key was reported too.
C3_Witness ==
    /\ LastScanFull
    /\ lastScan.scanNum # 0
    /\ \A k \in OperatedKeys : intervalCalls[k] = 1
    /\ \E k \in Keys : Matrix_scanArray[k].curState = KeyState_Press /\ pressCalls[k] = 1

\* C4: whenever Matrix_scan has returned, throttled or not, every cell's
\* curState is one of Off, Press, Hold, Release.
C4_CurStateConcrete == \A k \in Keys : Matrix_scanArray[k].curState \in ConcreteStates

\* A full scan with scanNum == 0 (which set every curState to Invalid) has
\* returned after resolving one key and suppressing another.
C4_Witness ==
    /\ LastScanFull
    /\ lastScan.scanNum = 0
    /\ \E k1, k2 \in Keys :
          /\ CallsFor(keyStateCalls, k1) = 1
          /\ CallsFor(keyStateCalls, k2) = 0

\* C5: Macro_keyState is never called with Invalid, no cell's prevState is
\* ever Invalid, and the "Matrix scan bug" message is never printed.
C5_NeverInvalid ==
    /\ \A k \in Keys : Matrix_scanArray[k].prevState # KeyState_Invalid
    /\ \A i \in 1 .. Len(keyStateCalls) : keyStateCalls[i][2] # KeyState_Invalid
    /\ errorPrinted = 0

\* Keys have been resolved and reported by a full scan with scanNum == 0 that
\* directly follows another scan with scanNum == 0 (matrixPrevScans == 0 with
\* no throttling and scans in every interval counted), past the repeat
\* threshold.
C5_Witness ==
    /\ DebounceThrottleDiv_define = 0
    /\ lastScan.scanNum = 0
    /\ matrixPrevScans = 0
    /\ matrixMaxScans > 0
    /\ Matrix_divCounter > Matrix_repeatThreshold
    /\ Len(keyStateCalls) = Matrix_maxKeys

\* C6: when a cell with curState == Invalid is processed and diff =
\* divCounter - lastChangeCounter is below Matrix_repeatThreshold, its curState
\* becomes its prevState, lastChangeCounter is unchanged and Macro_keyState is
\* not called for the key; the histograms change only by the resolutions of
\* other keys (each array grows by the number of Press, resp. Release, calls
\* of the scan, none of which is for the suppressed key).
C6_RepeatSuppression ==
    [][ FullScanStep =>
          /\ \A k \in Keys :
                ( ProcessedInvalid(k) /\ Less32(StepDiff(k), Matrix_repeatThreshold) ) =>
                    /\ Matrix_scanArray'[k].prevState = ProcessedPrev(k)
                    /\ Matrix_scanArray'[k].curState = Matrix_scanArray'[k].prevState
                    /\ Matrix_scanArray'[k].lastChangeCounter =
                          Matrix_scanArray[k].lastChangeCounter
                    /\ CallsFor(keyStateCalls', k) = 0
          /\ HistGrowsBy(Matrix_timesPress, Matrix_timesPress',
                         CallsOfState(keyStateCalls', KeyState_Press))
          /\ HistGrowsBy(Matrix_timesRelease, Matrix_timesRelease',
                         CallsOfState(keyStateCalls', KeyState_Release)) ]_vars

\* A pressed key whose counters no longer favour active was processed by a
\* scan with scanNum == 0 less than Matrix_repeatThreshold ticks after its
\* Press and kept Press without a call, while the same scan resolved another
\* key to Press.
C6_Witness ==
    /\ LastScanFull
    /\ lastScan.scanNum = 0
    /\ \E k1, k2 \in Keys :
          /\ Matrix_scanArray[k1].prevState = KeyState_Press
          /\ Matrix_scanArray[k1].curState = KeyState_Press
          /\ ~ActiveWins(Matrix_scanArray[k1])
          /\ Matrix_divCounter - Matrix_scanArray[k1].lastChangeCounter
                \in 1 .. (Matrix_repeatThreshold - 1)
          /\ CallsFor(keyStateCalls, k1) = 0
          /\ CallsWith(keyStateCalls, k2, KeyState_Press) = 1

\* C7: Scenario A.  Without throttling, from the steady Off state, a key
\* that reads closed on every scan, with scanNum == 0 passed again and again,
\* eventually resolves to Press; the scan that resolves it sets
\* lastChangeCounter to Matrix_divCounter, increments exactly one counter of
\* the Press histogram by one and calls Macro_keyState( key, Press ) once; no
\* second Press call and no Release call is made for the key.
C7_ScenarioA ==
    /\ <>( /\ Matrix_scanArray[BouncingKey].curState = KeyState_Press
           /\ pressCalls[BouncingKey] = 1 )
    /\ [][ ( ScanStep /\ pressCalls'[BouncingKey] # pressCalls[BouncingKey] ) =>
             /\ Matrix_scanArray[BouncingKey].curState = KeyState_Off
             /\ Matrix_scanArray'[BouncingKey].curState = KeyState_Press
             /\ Matrix_scanArray'[BouncingKey].lastChangeCounter = Matrix_divCounter'
             /\ \E b \in Buckets :
                   Matrix_timesPress' =
                       [ Matrix_timesPress EXCEPT ![b] = Matrix_timesPress[b] + 1 ]
             /\ CallsWith(keyStateCalls', BouncingKey, KeyState_Press) = 1
             /\ CallsFor(keyStateCalls', BouncingKey) = 1 ]_vars
    /\ []( /\ pressCalls[BouncingKey] <= 1
           /\ releaseCalls[BouncingKey] = 0
           /\ HistTotal(Matrix_timesPress) = pressCalls[BouncingKey] )

\* The scan that has resolved the key to Press has just returned.
C7_Witness ==
    /\ DebounceThrottleDiv_define = 0
    /\ Matrix_scanArray[BouncingKey].prevState = KeyState_Off
    /\ Matrix_scanArray[BouncingKey].curState = KeyState_Press
    /\ Matrix_scanArray[BouncingKey].lastChangeCounter = Matrix_divCounter
    /\ keyStateCalls # << >>
    /\ pressCalls[BouncingKey] = 1
    /\ HistTotal(Matrix_timesPress) = 1

\* C8: Scenario B / release rule.  A cell whose prevState is Press or Hold
\* and whose resolution is not suppressed resolves to Hold if activeCount >
\* inactiveCount after the scan's counter update and to Release otherwise
\* (ties included); on Release exactly one counter of the Release histogram
\* is incremented by one and lastChangeCounter is set to Matrix_divCounter,
\* on Hold neither changes.
C8_ReleaseRule ==
    [][ FullScanStep =>
          \A k \in Keys :
              ( /\ ProcessedInvalid(k)
                /\ ~Less32(StepDiff(k), Matrix_repeatThreshold)
                /\ ProcessedPrev(k) \in { KeyState_Press, KeyState_Hold } ) =>
                  LET new == Matrix_scanArray'[k]
                  IN  /\ new.curState =
                            IF new.activeCount > new.inactiveCount
                            THEN KeyState_Hold
                            ELSE KeyState_Release
                      /\ new.curState = KeyState_Release =>
                            /\ new.lastChangeCounter = Matrix_divCounter'
                            /\ \E b \in Buckets :
                                  Matrix_timesRelease' =
                                      [ Matrix_timesRelease EXCEPT
                                          ![b] = Matrix_timesRelease[b] + 1 ]
                      /\ new.curState = KeyState_Hold =>
                            /\ new.lastChangeCounter =
                                  Matrix_scanArray[k].lastChangeCounter
                            /\ Matrix_timesRelease' = Matrix_timesRelease ]_vars

\* A key that was held with activeCount at T has been read open and, with
\* the counters tied, has been resolved from Hold to Release.
C8_Witness ==
    /\ LastScanFull
    /\ lastScan.scanNum = 0
    /\ \E k \in Keys :
          /\ Matrix_scanArray[k].prevState = KeyState_Hold
          /\ Matrix_scanArray[k].curState = KeyState_Release
          /\ Matrix_scanArray[k].activeCount = Matrix_scanArray[k].inactiveCount
          /\ Matrix_scanArray[k].lastChangeCounter = Matrix_divCounter
          /\ releaseCalls[k] = 1
          /\ HistTotal(Matrix_timesRelease) = 1

\* C9 as stated: Scenario C.  From steady Off, after a single closed sample
\* followed only by open samples (activeCount <= inactiveCount at every
\* resolution), the key remains Off, Macro_keyState is never called for the
\* key and no histogram counter is incremented.  Stated for the scans from
\* the one that reads the closed sample until the counters are steady again
\* (inactiveCount below T).
C9_ScenarioC_NoCall ==
    Matrix_scanArray[BouncingKey].inactiveCount < DebounceDivThreshold_define =>
        /\ Matrix_scanArray[BouncingKey].curState = KeyState_Off
        /\ CallsFor(keyStateCalls, BouncingKey) = 0
        /\ HistTotal(Matrix_timesPress) = 0
        /\ HistTotal(Matrix_timesRelease) = 0

\* C9 as amended: in Scenario C activeCount <= inactiveCount holds after
\* every scan, the key remains Off (prevState and curState), Macro_keyState
\* is called for the key with no state other than Off, lastChangeCounter
\* stays 0 and no histogram counter is incremented.
C9_ScenarioC_OnlyOff ==
    /\ ~ActiveWins(Matrix_scanArray[BouncingKey])
    /\ Matrix_scanArray[BouncingKey].prevState = KeyState_Off
    /\ Matrix_scanArray[BouncingKey].curState = KeyState_Off
    /\ Matrix_scanArray[BouncingKey].lastChangeCounter = 0
    /\ \A i \in 1 .. Len(keyStateCalls) : keyStateCalls[i][2] = KeyState_Off
    /\ pressCalls[BouncingKey] = 0
    /\ releaseCalls[BouncingKey] = 0
    /\ HistTotal(Matrix_timesPress) = 0
    /\ HistTotal(Matrix_timesRelease) = 0

\* The scan that read the closed sample was a resolution (scanNum == 0, at or
\* past the repeat threshold) with the counters tied, and it reported Off.
C9_Witness ==
    /\ LastScanFull
    /\ lastScan.scanNum = 0
    /\ lastScan.samples[BouncingKey]
    /\ Matrix_divCounter >= Matrix_repeatThreshold
    /\ Matrix_scanArray[BouncingKey].activeCount = 1
    /\ Matrix_scanArray[BouncingKey].activeCount
          = Matrix_scanArray[BouncingKey].inactiveCount
    /\ CallsWith(keyStateCalls, BouncingKey, KeyState_Off) = 1

\* C10: Scenario D, the throttle frame.  Every call of Matrix_scan adds
\* exactly one to Matrix_divCounter.  A call that drives no pin (a skipped
\* invocation) leaves every cell, both histograms, the scan statistics, the
\* strobe outputs and matrixDebugStateCounter unchanged and calls
\* Macro_keyState for no key, whatever its scanNum.  With throttle divisor 1
\* the first call is a full scan and after it full scans and skipped
\* invocations alternate.
C10_ThrottleFrame ==
    [][ ScanStep =>
          /\ Matrix_divCounter' = Matrix_divCounter + 1
          /\ pinLog' = << >> =>
                /\ keyStateCalls' = << >>
                /\ UNCHANGED << Matrix_scanArray, Matrix_timesRelease,
                                Matrix_timesPress, matrixMaxScans,
                                matrixCurScans, matrixPrevScans, strobePins,
                                matrixDebugStateCounter >>
          /\ DebounceThrottleDiv_define = 1 =>
                IF Matrix_divCounter = 0
                THEN pinLog' # << >>
                ELSE (pinLog' = << >>) <=> (pinLog # << >>) ]_vars

\* With throttle divisor 1 a call with scanNum == 0 and a closed sample was
\* skipped while a state dump was pending and sub-scans had been counted.
C10_Witness ==
    /\ DebounceThrottleDiv_define = 1
    /\ LastScanSkipped
    /\ pinLog = << >>
    /\ lastScan.scanNum = 0
    /\ lastScan.samples[BouncingKey]
    /\ matrixDebugStateCounter > 0
    /\ matrixCurScans > 0

\* C11: diagnostics are presentation-only.  Whatever matrixDebugMode and
\* matrixDebugStateCounter are, a full scan leaves the cells, the histograms
\* and the strobe levels, and makes the Macro_keyState calls, that the same
\* scan makes with debugging off, so two runs fed the same scanNum arguments
\* and samples agree on them at every step; a CLI command changes none of
\* them.  A scan leaves matrixDebugMode alone and changes
\* matrixDebugStateCounter only by decreasing it by one, on a full scan
\* while it is non-zero; it never goes below zero.
C11_DiagnosticsPresentationOnly ==
    [][ /\ FullScanStep =>
              \E quiet \in { QuietScan } :
                  /\ Matrix_scanArray' = quiet.arr
                  /\ Matrix_timesRelease' = quiet.timesRelease
                  /\ Matrix_timesPress' = quiet.timesPress
                  /\ strobePins' = quiet.strobes
                  /\ keyStateCalls' = quiet.calls
        /\ ScanStep =>
              /\ matrixDebugMode' = matrixDebugMode
              /\ matrixDebugStateCounter' =
                    IF FullScanStep /\ matrixDebugStateCounter > 0
                    THEN matrixDebugStateCounter - 1
                    ELSE matrixDebugStateCounter
              /\ matrixDebugStateCounter' >= 0
        /\ ~ScanStep =>
              UNCHANGED << Matrix_scanArray, Matrix_timesRelease, Matrix_timesPress,
                           strobePins, keyStateCalls, Matrix_divCounter >> ]_vars

\* A scan in transition-debug mode resolved BouncingKey to Press, printed the
\* transition and printed the state table, using up the last pending dump.
C11_Witness ==
    /\ matrixDebugMode = 2
    /\ LastScanFull
    /\ CallsWith(keyStateCalls, BouncingKey, KeyState_Press) = 1
    /\ \E i \in 1 .. Len(debugPrints) :
          debugPrints[i] = << "Transition", BouncingKey, KeyState_Press >>
    /\ \E i \in 1 .. Len(debugPrints) : debugPrints[i][1] = "StateTable"
    /\ matrixDebugStateCounter = 0

\* floor(log2(u)) of a uint32_t value u # 0: the k with 2^k <= u < 2^(k+1).
FloorLog2(u) ==
    IF u < 0 THEN 31
    ELSE CHOOSE k \in 0 .. 30 : 2 ^ k <= u /\ (k = 30 \/ u < 2 ^ (k + 1))

\* The entries of bucketLog for the keys that the last scan resolved to state.
ResolvedEntries(log, calls, state) ==
    { i \in 1 .. Len(log) : CallsWith(calls, log[i][1], state) = 1 }

\* C12 as stated: the bucket computed for a tick delta is floor(log2(diff))
\* and lies in [0, 31]; a delta of exactly 2^k gives bucket k for k in
\* [0, 31], and a delta of 0 is clamped to bucket 0, also after the 32-bit
\* tick counter has wrapped.
C12_BucketClamped ==
    \A i \in 1 .. Len(bucketLog) :
        /\ bucketLog[i][3] \in Buckets
        /\ bucketLog[i][2] = 0 => bucketLog[i][3] = 0
        /\ bucketLog[i][2] # 0 => bucketLog[i][3] = FloorLog2(bucketLog[i][2])
        /\ \A k \in 0 .. 31 : bucketLog[i][2] = PowerTick(k) => bucketLog[i][3] = k

\* C12 as amended: a histogram counter is incremented only for a tick delta
\* diff >= Matrix_repeatThreshold, at index floor(log2(diff)), which lies in
\* [4, 31]; a delta of exactly 2^k lands in bucket k; each histogram grows by
\* exactly these increments, so no index outside the 32 entries is used; a
\* delta below Matrix_repeatThreshold, 0 included, increments nothing -
\* before and after the 32-bit tick counter wraps.
C12_BucketOfIncrement ==
    [][ FullScanStep =>
          /\ \A i \in 1 .. Len(bucketLog') :
                IF Less32(bucketLog'[i][2], Matrix_repeatThreshold)
                THEN CallsFor(keyStateCalls', bucketLog'[i][1]) = 0
                ELSE /\ bucketLog'[i][3] = FloorLog2(bucketLog'[i][2])
                     /\ bucketLog'[i][3] \in 4 .. 31
                     /\ \A k \in 0 .. 31 :
                           bucketLog'[i][2] = PowerTick(k) => bucketLog'[i][3] = k
          /\ \A b \in Buckets :
                /\ Matrix_timesPress'[b] = Matrix_timesPress[b] + Cardinality(
                      { i \in ResolvedEntries(bucketLog', keyStateCalls', KeyState_Press) :
                          bucketLog'[i][3] = b })
                /\ Matrix_timesRelease'[b] = Matrix_timesRelease[b] + Cardinality(
                      { i \in ResolvedEntries(bucketLog', keyStateCalls', KeyState_Release) :
                          bucketLog'[i][3] = b }) ]_vars

\* The scan at tick 0, just after the counter wrapped: BouncingKey, pressed
\* at a delta of 2^32 - 16 (bucket 31) before the wrap, is released at a
\* delta of exactly 2^4 and counted in bucket 4, while the first key, never
\* pressed, has delta 0, for which the bucket computed is not 0 and no
\* counter is incremented.
C12_Witness ==
    /\ Matrix_divCounter = 0
    /\ Matrix_timesPress[31] = 1
    /\ Matrix_timesRelease[4] = 1
    /\ << BouncingKey, Matrix_repeatThreshold, 4 >> \in
          { bucketLog[i] : i \in 1 .. Len(bucketLog) }
    /\ CallsWith(keyStateCalls, BouncingKey, KeyState_Release) = 1
    /\ \E i \in 1 .. Len(bucketLog) :
          /\ bucketLog[i][1] = 0
          /\ bucketLog[i][2] = 0
          /\ bucketLog[i][3] # 0
    /\ CallsFor(keyStateCalls, 0) = 0
    /\ HistTotal(Matrix_timesPress) = 1
    /\ HistTotal(Matrix_timesRelease) = 1

\* C13: strobe exclusivity.  All strobe lines are inactive whenever
\* Matrix_scan is entered and when it returns; during a full scan at most one
\* strobe is driven at any point, the strobes are driven in increasing index
\* order, each once, and the sense line of every key (strobe, sense) is read
\* exactly once, while exactly that strobe is driven.
C13_StrobeExclusivity ==
    /\ \A s \in Strobes : ~strobePins[s]
    /\ pinLog # << >> =>
          /\ \A n \in 0 .. Len(pinLog) : Cardinality(ActiveAfter(pinLog, n)) <= 1
          /\ StrobeOrder(pinLog) = [ i \in 1 .. Matrix_colsNum |-> << "StrobeOn", i - 1 >> ]
          /\ \A n \in 1 .. Len(pinLog) :
                pinLog[n][1] = "Sense" =>
                    /\ pinLog[n][3] = ActiveAfter(pinLog, n)
                    /\ Cardinality(pinLog[n][3]) = 1
          /\ \A strobe \in Strobes, sense \in Senses :
                Cardinality({ n \in 1 .. Len(pinLog) :
                                pinLog[n] = << "Sense", sense, { strobe } >> }) = 1
          /\ Cardinality({ n \in 1 .. Len(pinLog) : pinLog[n][1] = "Sense" })
                = Matrix_maxKeys

\* A full scan read the last key closed and the first key open: only the
\* last key's activeCount rose.
C13_Witness ==
    /\ LastScanFull
    /\ pinLog # << >>
    /\ lastScan.samples[BouncingKey]
    /\ ~lastScan.samples[0]
    /\ Matrix_scanArray[BouncingKey].activeCount = 1
    /\ Matrix_scanArray[0].activeCount = 0
    /\ Matrix_scanArray[0].inactiveCount = DebounceDivThreshold_define

\* The last call of Matrix_scan opened a reporting interval (scanNum == 0,
\* not throttled) and suppressed the resolution of key k.
SuppressedAtIntervalStart(k) ==
    /\ LastScanFull
    /\ lastScan.scanNum = 0
    /\ \E i \in 1 .. Len(bucketLog) :
          /\ bucketLog[i][1] = k
          /\ Less32(bucketLog[i][2], Matrix_repeatThreshold)

\* C14 as stated: when the resolution of a cell was suppressed because diff <
\* repeatThreshold, it is attempted again on the next sub-scan of the same
\* reporting interval: if diff has reached repeatThreshold there and the
\* counters of a cell that was Off favour active, the cell is resolved to
\* Press and Macro_keyState is called for it.
C14_ReattemptNextSubScan ==
    [][ \A k \in Keys :
          ( /\ SuppressedAtIntervalStart(k)
            /\ FullScanStep
            /\ lastScan'.scanNum # 0
            /\ ~Less32(StepDiff(k), Matrix_repeatThreshold)
            /\ Matrix_scanArray[k].prevState = KeyState_Off
            /\ ActiveWins(Matrix_scanArray'[k]) )
          => CallsWith(keyStateCalls', k, KeyState_Press) = 1 ]_vars

\* C14 as amended: a suppressed cell has curState restored to prevState, so
\* no sub-scan (scanNum # 0) attempts a resolution: it calls Macro_keyState
\* for no key and leaves prevState, curState, lastChangeCounter and the
\* histograms unchanged, also when diff has reached repeatThreshold.  The
\* resolution is attempted again by the next full scan with scanNum == 0,
\* which calls Macro_keyState for every key whose diff has reached
\* repeatThreshold.
C14_ReattemptNextInterval ==
    [][ FullScanStep =>
          IF lastScan'.scanNum # 0
          THEN /\ keyStateCalls' = << >>
               /\ bucketLog' = << >>
               /\ \A k \in Keys :
                     /\ Matrix_scanArray'[k].prevState = Matrix_scanArray[k].prevState
                     /\ Matrix_scanArray'[k].curState = Matrix_scanArray[k].curState
                     /\ Matrix_scanArray'[k].lastChangeCounter =
                           Matrix_scanArray[k].lastChangeCounter
               /\ UNCHANGED << Matrix_timesPress, Matrix_timesRelease >>
          ELSE \A k \in Keys :
                  CallsFor(keyStateCalls', k) =
                     IF Less32(StepDiff(k), Matrix_repeatThreshold) THEN 0 ELSE 1 ]_vars

\* BouncingKey was suppressed by the scan that opened the interval; the
\* sub-scan after it found activeCount > inactiveCount and diff at the
\* repeat threshold, and the key is still Off and unreported.
C14_Witness ==
    /\ DebounceThrottleDiv_define = 0
    /\ LastScanFull
    /\ lastScan.scanNum # 0
    /\ intervalCalls[BouncingKey] = 0
    /\ ActiveWins(Matrix_scanArray[BouncingKey])
    /\ Matrix_scanArray[BouncingKey].curState = KeyState_Off
    /\ ~Less32(TimeDiff(Matrix_divCounter, Matrix_scanArray[BouncingKey]),
               Matrix_repeatThreshold)
    /\ pressCalls[BouncingKey] = 0

NotifiedNext(last) ==
    IF last \in { KeyState_Press, KeyState_Hold }
    THEN { KeyState_Hold, KeyState_Release }
    ELSE { KeyState_Press, KeyState_Off }

\* C16: for each key, a call of Matrix_scan notifies the sink at most once,
\* with Hold or Release when the key's last notification was Press or Hold and
\* with Press or Off when it was Release or Off or there was none; and when
\* the call returns the cell's curState is the last state notified for the
\* key (Off if none).
C16_NotificationOrder ==
    [][ ScanStep =>
          \A k \in Keys :
              /\ CallsFor(keyStateCalls', k) <= 1
              /\ \A n \in 1 .. Len(keyStateCalls') :
                    keyStateCalls'[n][1] = k =>
                        /\ keyStateCalls'[n][2] \in NotifiedNext(lastNotified[k])
                        /\ lastNotified'[k] = keyStateCalls'[n][2]
              /\ CallsFor(keyStateCalls', k) = 0 => lastNotified'[k] = lastNotified[k]
              /\ Matrix_scanArray'[k].curState =
                    ( IF lastNotified'[k] = NotNotified
                      THEN KeyState_Off
                      ELSE lastNotified'[k] ) ]_vars

\* The key has gone through Press and Release and is pressed again: the
\* second Press has been notified and a suppressed scan of a later interval
\* finds curState still Press.
C16_Witness ==
    /\ pressCalls[BouncingKey] = 2
    /\ releaseCalls[BouncingKey] = 1
    /\ lastNotified[BouncingKey] = KeyState_Press
    /\ Matrix_scanArray[BouncingKey].curState = KeyState_Press
    /\ lastScan.scanNum = 0
    /\ LastScanFull
    /\ CallsFor(keyStateCalls, BouncingKey) = 0

\* In the step, Macro_keyState is called for key k with Press or Release.
TransitionNotified(k) ==
    CallsWith(keyStateCalls', k, KeyState_Press)
        + CallsWith(keyStateCalls', k, KeyState_Release) > 0

\* C17: a call of Matrix_scan that resolves a key to Press or Release does so
\* at least Matrix_repeatThreshold ticks after the key's previous Press or
\* Release, whose tick lastChangeCounter holds, and stamps lastChangeCounter
\* with the tick; every other call (Hold, Off, suppressed, skipped) leaves
\* lastChangeCounter as it is; and while fewer than Matrix_repeatThreshold
\* ticks have passed since Matrix_setup no Press or Release has been resolved
\* and lastChangeCounter is still 0.
C17_MinimumSpacing ==
    /\ [][ ScanStep =>
             \A k \in Keys :
                 IF TransitionNotified(k)
                 THEN /\ ~Less32(StepDiff(k), Matrix_repeatThreshold)
                      /\ Matrix_scanArray'[k].lastChangeCounter = Matrix_divCounter'
                      /\ Matrix_scanArray'[k].curState
                            \in { KeyState_Press, KeyState_Release }
                 ELSE /\ Matrix_scanArray'[k].lastChangeCounter =
                            Matrix_scanArray[k].lastChangeCounter
                      /\ Matrix_scanArray'[k].curState
                            \notin { KeyState_Press, KeyState_Release }
                         \/ Matrix_scanArray'[k].curState = Matrix_scanArray[k].curState
           ]_vars
    /\ [] ( ( Matrix_divCounter >= 0 /\ Matrix_divCounter < Matrix_repeatThreshold ) =>
              \A k \in Keys :
                  /\ pressCalls[k] = 0
                  /\ releaseCalls[k] = 0
                  /\ Matrix_scanArray[k].lastChangeCounter = 0
                  /\ Matrix_scanArray[k].curState = KeyState_Off )

\* The key was pressed at tick 16, the first tick the threshold allows, and
\* released at tick 32, exactly Matrix_repeatThreshold ticks later, after a
\* resolution to Hold and suppressed scans in between left lastChangeCounter
\* at 16.
C17_Witness ==
    /\ Matrix_divCounter = 2 * Matrix_repeatThreshold
    /\ Matrix_scanArray[BouncingKey].lastChangeCounter = 2 * Matrix_repeatThreshold
    /\ Matrix_scanArray[BouncingKey].curState = KeyState_Release
    /\ pressCalls[BouncingKey] = 1
    /\ releaseCalls[BouncingKey] = 1
    /\ keyStateCalls[Len(keyStateCalls)] = << BouncingKey, KeyState_Release >>

\* The number of calls counted per key, summed over the keys below n.
RECURSIVE CallSum(_, _)
CallSum(calls, n) == IF n = 0 THEN 0 ELSE calls[n - 1] + CallSum(calls, n - 1)

\* C18: between initializations every call of Matrix_scan leaves each
\* histogram counter at least as large as it was, and leaves a histogram as
\* it is unless the call notifies a Press (Press histogram) or a Release
\* (Release histogram); at every point the counters of the Press histogram
\* sum to the number of Macro_keyState( key, Press ) calls made so far over
\* all keys and those of the Release histogram to the number of
\* Macro_keyState( key, Release ) calls.
C18_HistogramAccounting ==
    /\ [][ ScanStep =>
             /\ \A i \in Buckets :
                   /\ Matrix_timesPress'[i] >= Matrix_timesPress[i]
                   /\ Matrix_timesRelease'[i] >= Matrix_timesRelease[i]
             /\ CallsOfState(keyStateCalls', KeyState_Press) = 0 =>
                   Matrix_timesPress' = Matrix_timesPress
             /\ CallsOfState(keyStateCalls', KeyState_Release) = 0 =>
                   Matrix_timesRelease' = Matrix_timesRelease ]_vars
    /\ [] ( /\ HistTotal(Matrix_timesPress) = CallSum(pressCalls, Matrix_maxKeys)
            /\ HistTotal(Matrix_timesRelease) = CallSum(releaseCalls, Matrix_maxKeys) )

\* Two Press calls and one Release call have been made, and both Press calls
\* were counted in the same bucket.
C18_Witness ==
    /\ CallSum(pressCalls, Matrix_maxKeys) = 2
    /\ CallSum(releaseCalls, Matrix_maxKeys) = 1
    /\ \E i \in Buckets : Matrix_timesPress[i] = 2
    /\ HistTotal(Matrix_timesRelease) = 1

\* C19 as stated: with a throttle divisor above 0, a key that reads closed
\* on every scan, and scanNum == 0 recurring, the key is eventually resolved
\* to Press and notified; and the freeze of a reporting interval is not lost
\* when the call that carries scanNum == 0 is throttled: the full scan that
\* follows it in the interval resolves the key (Macro_keyState is called for
\* it) once diff has reached Matrix_repeatThreshold.
C19_ThrottledLiveness ==
    /\ <>( /\ pressCalls[BouncingKey] >= 1
           /\ Matrix_scanArray[BouncingKey].curState = KeyState_Press )
    /\ [][ ( /\ FullScanStep
             /\ LastScanSkipped
             /\ lastScan.scanNum = 0
             /\ lastScan'.scanNum # 0
             /\ ~Less32(StepDiff(BouncingKey), Matrix_repeatThreshold) ) =>
               CallsFor(keyStateCalls', BouncingKey) = 1 ]_vars

\* C20: from the steady off counters under T = 0xFFFF (activeCount 0,
\* inactiveCount 0xFFFF), after n closed sub-scans in a row activeCount is n
\* and inactiveCount is 0xFFFF shifted right n times, so activeCount >
\* inactiveCount is still false after 12 sub-scans and true after 13 and from
\* then on.
C20_OffToOnLatency ==
    /\ Matrix_scanArray[BouncingKey].activeCount = Matrix_divCounter
    /\ Matrix_scanArray[BouncingKey].inactiveCount =
          SteadyOffThreshold \div (2 ^ Matrix_divCounter)
    /\ ActiveWins(Matrix_scanArray[BouncingKey]) <=> Matrix_divCounter >= 13
    /\ Matrix_divCounter <= 12 => ~ActiveWins(Matrix_scanArray[BouncingKey])

\* The thirteenth closed sub-scan in a row has been counted: activeCount 13
\* exceeds inactiveCount 7, while a key that also read open has not got there.
C20_Witness ==
    /\ Matrix_divCounter = 13
    /\ Matrix_scanArray[BouncingKey].activeCount = 13
    /\ Matrix_scanArray[BouncingKey].inactiveCount = 7
    /\ ActiveWins(Matrix_scanArray[BouncingKey])
    /\ ~ActiveWins(Matrix_scanArray[0])

====
